---- MODULE Spec2Model ----
(***************************************************************************)
(* Request orchestration layer of the bank transaction enricher:           *)
(* TriqaiClient.enrich_batch, its per-transaction tasks (process_one /     *)
(* _make_request / _request_with_retry), the pacing gate                   *)
(* (_wait_for_rate_limit) and the rate-limit tracker                       *)
(* (_update_rate_limit_info / RateLimitInfo.from_headers).                 *)
(*                                                                         *)
(* One action is one run of a coroutine between two suspension points of   *)
(* the asyncio event loop.  List positions are 1-based here (idx + 1).     *)
(* What the server answers is an input of the action that receives it.     *)
(* Spec, SpecRetry: comparisons against the wall clock (time.time()) are   *)
(* inputs of the action that makes them, and the clock stands still.       *)
(* SpecPacing: the clock runs (Tick) and the comparisons are computed.     *)
(***************************************************************************)
EXTENDS Integers, Sequences, FiniteSets, TLC

\* ---------------------------------------------------------------- bounds
MaxN == 2
MaxConcurrent == 2
MaxRetriesLong == 8
MaxTime == 5            \* ticks the clock of SpecPacing runs for

\* ------------------------------------------------------------------ time
\* one tick of the clock is the 0.5 s buffer of _wait_for_rate_limit
TicksPerSecond == 2

\* "await asyncio.sleep(wait_time + 0.5)": the buffer, in ticks
ResetBuffer == 1

\* time.time() when the client is created: far from the 0.0 that
\* _last_request_time starts with
StartTime == 1 + TicksPerSecond

\* TriqaiClient(max_retries=3), the only value main() ever runs with
DefaultMaxRetries == 3

\* the transactions a batch is drawn from: the input list is a prefix
AllTransactions ==
    <<"STARBUCKS #123", "UBER TRIP", "AMAZON MKTP", "SHELL OIL", "NETFLIX">>

\* ------------------------------------------------------------- optionals
\* Python's None is the empty sequence, a present value v is <<v>>.
None == <<>>

Some(v) == <<v>>

\* --------------------------------------------------------------- headers
\* the response headers the server may send (X-RateLimit-Remaining,
\* X-RateLimit-Reset): none, an exhausted bucket, a bucket with quota left
NoHeaders == [remaining |-> None, reset |-> None]

\* the ISO-8601 text of the instant at
Iso(at) == [iso |-> at]

\* the headers of a response sent at instant time: the bucket resets one
\* second later
HeadersAt(time) ==
    {NoHeaders,
     [remaining |-> Some(0), reset |-> Some(Iso(time + TicksPerSecond))],
     [remaining |-> Some(2), reset |-> Some(Iso(time + TicksPerSecond))]}

Headers == HeadersAt(StartTime)

\* from_headers._int: int(headers.get(key, 0)), kept only when > 0
HeaderInt(h) == IF h = None THEN None ELSE IF h[1] > 0 THEN h ELSE None

\* httpx.Headers keeps every header under its lower-cased name
Lower(name) ==
    CASE name = "X-RateLimit-Remaining" -> "x-ratelimit-remaining"
      [] name = "X-RateLimit-Reset" -> "x-ratelimit-reset"
      [] name = "X-RateLimit-Limit" -> "x-ratelimit-limit"
      [] name = "X-RateLimit-Concurrency-Limit"
            -> "x-ratelimit-concurrency-limit"
      [] name = "X-RateLimit-Concurrency-Remaining"
            -> "x-ratelimit-concurrency-remaining"
      [] name = "Retry-After" -> "retry-after"

\* dict(headers) of _update_rate_limit_info: a plain dict, as a set of
\* <<key, value>>, whose keys are the names httpx.Headers iterates over
DictOfHeaders(headers) ==
    {p \in {<<Lower("X-RateLimit-Remaining"), headers.remaining>>,
            <<Lower("X-RateLimit-Reset"), headers.reset>>} : p[2] # None}

\* headers.get(key) on the plain dict: None when the key is not in it
DictGet(d, key) ==
    IF \E p \in d : p[1] = key
    THEN (CHOOSE p \in d : p[1] = key)[2]
    ELSE None

\* RateLimitInfo.from_headers (the fields the pacing gate reads)
FromHeaders(d) ==
    [remaining |-> HeaderInt(DictGet(d, "X-RateLimit-Remaining")),
     reset |-> DictGet(d, "X-RateLimit-Reset")]

\* RateLimitInfo.get_reset_timestamp: None when there is no reset header,
\* else datetime.fromisoformat(...).timestamp()
GetResetTimestamp(info) ==
    IF info.reset = None THEN None ELSE Some(info.reset[1].iso)

\* ------------------------------------------------------ tenacity settings
\* @retry(..., reraise=True)
Reraise == TRUE

BackoffMultiplier == 1

BackoffMin == 2

BackoffMax == 60

RECURSIVE Pow2(_)
Pow2(n) == IF n <= 0 THEN 1 ELSE 2 * Pow2(n - 1)

Max2(a, b) == IF a >= b THEN a ELSE b

Min2(a, b) == IF a <= b THEN a ELSE b

\* wait_exponential without its min/max clamp
WaitExponentialUnclamped(attempt_number) ==
    BackoffMultiplier * Pow2(attempt_number - 1)

\* tenacity.wait_exponential(multiplier=1, min=2, max=60) after attempt n
WaitExponential(attempt_number) ==
    Max2(Max2(0, BackoffMin),
         Min2(BackoffMultiplier * Pow2(attempt_number - 1), BackoffMax))

\* stop_after_attempt that stops one attempt late
StopAfterAttemptLate(attempt_number, limit) == attempt_number > limit

\* tenacity.stop_after_attempt(self.max_retries)
StopAfterAttempt(attempt_number, limit) == attempt_number >= limit

\* retry_if_exception_type(Exception): every raised failure is retried
RetryIfAnyException(outcome) == TRUE

\* retry_if_exception_type(RateLimitError): only a 429 is retried
RetryIf(outcome) == outcome = "429"

\* ------------------------------------------------------------- outcomes
Statuses == {"200", "200partial", "429", "401", "402", "500"}

TransportErrors == {"timeout", "request_error"}

NoOut == [kind |-> "none", input |-> "", success |-> FALSE, partial |-> FALSE,
          data |-> FALSE, error |-> "none", message |-> <<>>, exc |-> "none"]

\* EnrichmentResult(...) as built by _make_request: data is whether the
\* payload is present, error the error code ("none": no error detail)
Result(txn, success, partial, data, error, message) ==
    [kind |-> "result", input |-> txn, success |-> success, partial |-> partial,
     data |-> data, error |-> error, message |-> message, exc |-> "none"]

\* an exception leaving _make_request
Raised(exc) == [NoOut EXCEPT !.kind = "exception", !.exc = exc]

VARIABLES
    transactions,       \* the input list of enrich_batch
    max_concurrent,     \* self.max_concurrent
    max_retries,        \* self.max_retries
    semaphore,          \* value of self._semaphore (-1: not created)
    rate_limit_lock,    \* holder of self._rate_limit_lock, 0 when free
    rate_limit_info,    \* self._rate_limit_info
    pc,                 \* position of every process_one task
    sleeping,           \* which sleep of the pacing gate a task is in
    attempt,            \* tenacity's attempt_number of a task
    history,            \* outcomes of the finished attempts of a task
    sent,               \* number of client.post calls issued by a task
    gated,              \* number of times _wait_for_rate_limit returned to it
    waits,              \* backoff waits tenacity inserted for a task
    out,                \* what a finished task yields
    doneq,              \* finished tasks in completion order (as_completed)
    main_pc,            \* position of enrich_batch
    completed,          \* enrich_batch's completed counter
    results_dict,       \* results_dict: <<idx, result>> items in insertion order
    progress,           \* the progress_callback invocations
    returned,           \* the list enrich_batch returned
    raised,             \* the exception enrich_batch raised
    client,             \* the shared httpx.AsyncClient: none, open, closed
    last_headers,       \* headers of the response received last, if any
    now,                \* the wall clock, time.time(), in ticks
    request_delay,      \* self.request_delay, in ticks
    last_request_time,  \* self._last_request_time
    wake_at,            \* when the asyncio.sleep of a task is over
    dispatched,         \* the client.post calls issued, in order
    start_time,         \* start_time of a task's _make_request call
    processing_time_ms, \* processing_time_ms of the result of a task
    api_key,            \* main: is there an API key (--api-key or TRIQAI_API_KEY)
    input_exists,       \* main: does the input file exist
    exit_code,          \* what main returned, if it has
    report,             \* the summary main printed at its end, if it has
    category,           \* a "category" payload of the API (TransactionData)
    category_name,      \* what get_primary_category_name returned for it
    csv_header,         \* the column names of the CSV file's header line
    csv_rows,           \* the data rows of the CSV file, as lists of cells
    loaded,             \* how load_transactions_from_csv ended
    semaphores,         \* the asyncio.Semaphore objects made so far: values
    self_semaphore,     \* self._semaphore: the latest of them (0: None)
    calls,              \* the enrich_batch calls on one client
    call_tasks,         \* the process_one tasks of these calls
    header_dict,        \* a dict of response headers given to from_headers
    parsed_info         \* the RateLimitInfo from_headers made of it

vars == <<transactions, max_concurrent, max_retries, semaphore,
          rate_limit_lock, rate_limit_info, pc, sleeping, attempt, history,
          sent, gated, waits, out, doneq, main_pc, completed, results_dict, progress,
          returned, raised, client, last_headers, now, request_delay,
          last_request_time, wake_at, dispatched, start_time,
          processing_time_ms, api_key, input_exists, exit_code, report,
          category, category_name, csv_header, csv_rows, loaded,
          semaphores, self_semaphore, calls, call_tasks, header_dict,
          parsed_info>>

config == <<transactions, max_concurrent, max_retries>>

\* the clock and what depends on it: Spec leaves the clock out (its actions
\* take the outcome of every comparison against time.time() as an input),
\* SpecPacing keeps it
timeVars == <<now, request_delay, last_request_time, wake_at, dispatched,
              start_time, processing_time_ms>>

\* main() around the batch
runVars == <<api_key, input_exists, exit_code, report>>

\* the data helpers: get_primary_category_name and the CSV loader
dataVars == <<category, category_name, csv_header, csv_rows, loaded>>

\* several enrich_batch calls on one client
overlapVars == <<semaphores, self_semaphore, calls, call_tasks>>

\* RateLimitInfo.from_headers on its own
headerVars == <<header_dict, parsed_info>>

sideVars == <<dataVars, overlapVars, headerVars>>

\* what no step of the client touches
otherVars == <<runVars, sideVars>>

\* the client and its batch
clientVars == <<semaphore, rate_limit_lock, rate_limit_info, pc, sleeping,
                attempt, history, sent, gated, waits, out, doneq, completed,
                results_dict, progress, returned, raised, client,
                last_headers, timeVars>>

mainVars == <<main_pc, completed, results_dict, progress, returned, raised,
              client>>

N == Len(transactions)

Tasks == 1..N

InitWith(lengths, slots, retries, delays, keys, files) ==
    /\ transactions \in {SubSeq(AllTransactions, 1, k) : k \in lengths}
    /\ max_concurrent \in slots
    /\ max_retries \in retries
    /\ semaphore = -1
    /\ rate_limit_lock = 0
    /\ rate_limit_info = None
    /\ pc = [t \in 1..Len(transactions) |-> "new"]
    /\ sleeping = [t \in 1..Len(transactions) |-> "none"]
    /\ attempt = [t \in 1..Len(transactions) |-> 0]
    /\ history = [t \in 1..Len(transactions) |-> <<>>]
    /\ sent = [t \in 1..Len(transactions) |-> 0]
    /\ gated = [t \in 1..Len(transactions) |-> 0]
    /\ waits = [t \in 1..Len(transactions) |-> <<>>]
    /\ out = [t \in 1..Len(transactions) |-> NoOut]
    /\ doneq = <<>>
    /\ main_pc = "main"
    /\ completed = 0
    /\ results_dict = <<>>
    /\ progress = <<>>
    /\ returned = <<>>
    /\ raised = "none"
    /\ client = "none"
    /\ last_headers = None
    /\ now = StartTime
    /\ request_delay \in delays
    /\ last_request_time = 0
    /\ wake_at = [t \in 1..Len(transactions) |-> 0]
    /\ dispatched = <<>>
    /\ start_time = [t \in 1..Len(transactions) |-> 0]
    /\ processing_time_ms = [t \in 1..Len(transactions) |-> None]
    /\ api_key \in keys
    /\ input_exists \in files
    /\ exit_code = None
    /\ report = None

MaxCalls == 2

CallIds == 1..MaxCalls

\* no enrich_batch call beside the one of main
OverlapIdle ==
    /\ semaphores = <<>>
    /\ self_semaphore = 0
    /\ calls = [b \in CallIds |-> [pc |-> "idle", size |-> 0]]
    /\ call_tasks = [b \in CallIds |->
                       [i \in 1..MaxN |-> [pc |-> "none", sem |-> 0]]]

\* no header dict at hand
HeadersIdle == header_dict = {} /\ parsed_info = None

\* no category payload and no CSV file at hand
DataIdle ==
    /\ OverlapIdle
    /\ HeadersIdle
    /\ category = [kind |-> "none", primary |-> None, name |-> None,
                   mcc |-> None]
    /\ category_name = None
    /\ csv_header = <<>>
    /\ csv_rows = <<>>
    /\ loaded = None

Init ==
    /\ InitWith(0..MaxN, 1..MaxConcurrent, {DefaultMaxRetries}, {1}, BOOLEAN,
                BOOLEAN)
    /\ DataIdle

\* ------------------------------------------------------------------ main
\* without the input file main checks nothing but the API key
ChecksPassKeyOnly(key, file) == key

\* "if not api_key: ... return 1" and "if not input_path.exists(): ...
\* return 1"
ChecksPass(key, file) == key /\ file

\* main up to the enrichment: the two checks end the run with exit code 1,
\* else the client is created and the transactions are loaded
MainChecks ==
    /\ main_pc = "main"
    /\ IF ChecksPass(api_key, input_exists)
       THEN main_pc' = "start" /\ exit_code' = exit_code
       ELSE main_pc' = "halted" /\ exit_code' = Some(1)
    /\ UNCHANGED <<config, api_key, input_exists, report, clientVars,
                   sideVars>>

\* sum(1 for r in results if r.success), ... if r.partial, ... if not
\* r.success
CountSuccessful(results) ==
    Cardinality({i \in DOMAIN results : results[i].success})

CountPartial(results) ==
    Cardinality({i \in DOMAIN results : results[i].partial})

CountFailed(results) ==
    Cardinality({i \in DOMAIN results : ~results[i].success})

\* the end of main after enrich_batch returned: the summary counts and, if
\* the client has a rate-limit state, its remaining quota; exit code 0
Report ==
    /\ main_pc = "returned"
    /\ report = None
    /\ report' = Some([successful |-> CountSuccessful(returned),
                       partial |-> CountPartial(returned),
                       failed |-> CountFailed(returned),
                       rate_limit |-> IF rate_limit_info = None THEN None
                                      ELSE Some(rate_limit_info[1].remaining)])
    /\ exit_code' = Some(0)
    /\ UNCHANGED <<config, api_key, input_exists, main_pc, clientVars,
                   sideVars>>

\* ----------------------------------------------------------- enrich_batch
\* enrich_batch without its empty-input guard
IsEmptyNever(txns) == FALSE

\* "if not transactions"
IsEmpty(txns) == Len(txns) = 0

\* a semaphore created one slot too large
NewSemaphoreOffByOne(value) == value + 1

\* asyncio.Semaphore(self.max_concurrent)
NewSemaphore(value) == value

\* results_dict[i]
Lookup(d, i) == d[CHOOSE k \in 1..Len(d) : d[k][1] = i][2]

\* list(results_dict.values()): the results in completion order
ResultListInsertionOrder(d, n) == [i \in 1..n |-> d[i][2]]

\* [results_dict[i] for i in range(len(transactions))]
ResultList(d, n) == [i \in 1..n |-> Lookup(d, i)]

\* results_dict[idx] = result: a new key goes last, a known key keeps its place
Store(d, idx, result) ==
    IF \E k \in 1..Len(d) : d[k][1] = idx
    THEN [k \in 1..Len(d) |-> IF d[k][1] = idx THEN <<idx, result>> ELSE d[k]]
    ELSE Append(d, <<idx, result>>)

\* progress_callback(total, completed): the arguments swapped
ProgressArgsSwapped(done, total) == <<total, done>>

\* progress_callback(completed, total)
ProgressArgs(done, total) == <<done, total>>

\* a task list that leaves out the first transaction
CreateTasksButFirst(n) ==
    [t \in 1..n |-> IF t = 1 THEN "new" ELSE "pending"]

\* tasks = [process_one(client, i, txn) for i, txn in
\* enumerate(transactions)]: one task per transaction, waiting for a slot
CreateTasks(n) == [t \in 1..n |-> "pending"]

\* enrich_batch up to its first await: the empty-input return, or the
\* semaphore, the shared client and one process_one task per transaction
EnrichBatch ==
    /\ main_pc = "start"
    /\ IF IsEmpty(transactions)
       THEN /\ main_pc' = "returned"
            /\ returned' = <<>>
            /\ UNCHANGED <<semaphore, pc, client>>
       ELSE /\ main_pc' = "collecting"
            /\ semaphore' = NewSemaphore(max_concurrent)
            /\ client' = "open"
            /\ pc' = CreateTasks(N)
            /\ UNCHANGED returned
    /\ UNCHANGED <<config, otherVars, rate_limit_lock, rate_limit_info, sleeping, attempt,
                   history, sent, gated, waits, out, doneq, completed, results_dict,
                   progress, raised, last_headers, timeVars>>

\* a counter that skips a number
IncrementByTwo(count) == count + 2

\* "completed += 1"
Increment(count) == count + 1

\* one iteration of "for coro in asyncio.as_completed(tasks)": a result is
\* stored and reported, and the last one ends the loop, closes the client and
\* returns the list; an exception leaves enrich_batch through the
\* "async with httpx.AsyncClient()" block, which closes the client
Collect ==
    /\ main_pc = "collecting"
    /\ doneq # <<>>
    /\ LET t == Head(doneq)
           o == out[t]
       IN  /\ doneq' = Tail(doneq)
           /\ IF o.kind = "exception"
              THEN /\ main_pc' = "raised"
                   /\ raised' = o.exc
                   /\ client' = "closed"
                   /\ UNCHANGED <<completed, results_dict, progress, returned>>
              ELSE /\ results_dict' = Store(results_dict, t, o)
                   /\ completed' = Increment(completed)
                   /\ progress' = Append(progress, ProgressArgs(completed', N))
                   /\ raised' = raised
                   /\ IF Len(results_dict') = N
                      THEN /\ main_pc' = "returned"
                           /\ client' = "closed"
                           /\ returned' = ResultList(results_dict', N)
                      ELSE UNCHANGED <<main_pc, client, returned>>
    /\ UNCHANGED <<config, otherVars, semaphore, rate_limit_lock, rate_limit_info, pc,
                   sleeping, attempt, history, sent, gated, waits, out, last_headers,
                   timeVars>>

\* ----------------------------------------------------------- process_one
\* asyncio.Semaphore: acquire() passes only while the value is positive
SemaphoreFree(value) == value > 0

\* a process_one that leaves "async with self._semaphore" without release
FinishKeepsSlot(t, o, sem) ==
    /\ out' = [out EXCEPT ![t] = o]
    /\ pc' = [pc EXCEPT ![t] = "done"]
    /\ semaphore' = sem
    /\ doneq' = Append(doneq, t)

\* process_one ends (return idx, result, or an exception): "async with
\* self._semaphore" releases the slot and as_completed queues the task.
\* sem is the semaphore's value before the release.
Finish(t, o, sem) ==
    /\ out' = [out EXCEPT ![t] = o]
    /\ pc' = [pc EXCEPT ![t] = "done"]
    /\ semaphore' = sem + 1
    /\ doneq' = Append(doneq, t)

\* client.post(...): the request goes out, unless the client was closed by
\* enrich_batch in the meantime (httpx raises RuntimeError, which nothing
\* in _make_request catches)
Post(t, sem) ==
    IF client = "closed"
    THEN /\ Finish(t, Raised("runtime_error"), sem)
         /\ UNCHANGED sent
    ELSE /\ pc' = [pc EXCEPT ![t] = "inflight"]
         /\ sent' = [sent EXCEPT ![t] = @ + 1]
         /\ semaphore' = sem
         /\ UNCHANGED <<out, doneq>>

\* a gate that keeps the lock when it lets the request go
SpacingKeepsLock(t, sem, too_early) ==
    IF too_early
    THEN /\ sleeping' = [sleeping EXCEPT ![t] = "spacing"]
         /\ pc' = [pc EXCEPT ![t] = "gate_sleep"]
         /\ rate_limit_lock' = t
         /\ semaphore' = sem
         /\ UNCHANGED <<sent, gated, out, doneq>>
    ELSE /\ sleeping' = [sleeping EXCEPT ![t] = "none"]
         /\ rate_limit_lock' = t
         /\ gated' = [gated EXCEPT ![t] = @ + 1]
         /\ Post(t, sem)

\* the spacing half of _wait_for_rate_limit: sleep under the lock when
\* elapsed < request_delay, else leave the lock and send
Spacing(t, sem, too_early) ==
    IF too_early
    THEN /\ sleeping' = [sleeping EXCEPT ![t] = "spacing"]
         /\ pc' = [pc EXCEPT ![t] = "gate_sleep"]
         /\ rate_limit_lock' = t
         /\ semaphore' = sem
         /\ UNCHANGED <<sent, gated, out, doneq>>
    ELSE /\ sleeping' = [sleeping EXCEPT ![t] = "none"]
         /\ rate_limit_lock' = 0
         /\ gated' = [gated EXCEPT ![t] = @ + 1]
         /\ Post(t, sem)

\* the body of _wait_for_rate_limit under the lock, up to its first sleep.
\* before_reset says whether reset_ts - time.time() > 0, too_early whether
\* elapsed < request_delay: both compare against the wall clock, and resets
\* and earlies are the answers the clock can give.
GateChecks(t, sem, resets, earlies) ==
    \E before_reset \in resets, too_early \in earlies :
        IF /\ rate_limit_info # None
           /\ rate_limit_info[1].remaining = Some(0)
           /\ GetResetTimestamp(rate_limit_info[1]) # None
           /\ before_reset
        THEN /\ sleeping' = [sleeping EXCEPT ![t] = "reset"]
             /\ pc' = [pc EXCEPT ![t] = "gate_sleep"]
             /\ rate_limit_lock' = t
             /\ semaphore' = sem
             /\ UNCHANGED <<sent, gated, out, doneq>>
        ELSE Spacing(t, sem, too_early)

\* asyncio.Lock.acquire() returns at once only when the lock is neither
\* held nor awaited by an earlier caller
LockFree == rate_limit_lock = 0 /\ \A u \in Tasks : pc[u] # "gate"

\* "async with self._rate_limit_lock": run the checks, or queue for the lock
WaitForRateLimit(t, sem, resets, earlies) ==
    IF LockFree
    THEN GateChecks(t, sem, resets, earlies)
    ELSE /\ pc' = [pc EXCEPT ![t] = "gate"]
         /\ semaphore' = sem
         /\ UNCHANGED <<sleeping, rate_limit_lock, sent, gated, out, doneq>>

\* _request_with_retry that sends without awaiting _wait_for_rate_limit
RequestWithRetryUngated(t, sem, resets, earlies) ==
    /\ Post(t, sem)
    /\ UNCHANGED <<sleeping, rate_limit_lock, gated>>

\* one call of _request_with_retry up to its first suspension: every call,
\* tenacity's first and each retry, starts with _wait_for_rate_limit
RequestWithRetry(t, sem, resets, earlies) ==
    WaitForRateLimit(t, sem, resets, earlies)

\* "async with self._semaphore": the task takes a slot and runs
\* _make_request / _request_with_retry (tenacity's first attempt) up to its
\* first suspension
AcquireSlot(t) ==
    /\ pc[t] = "pending"
    /\ SemaphoreFree(semaphore)
    /\ attempt' = [attempt EXCEPT ![t] = 1]
    /\ RequestWithRetry(t, semaphore - 1, BOOLEAN, BOOLEAN)
    /\ UNCHANGED <<config, otherVars, rate_limit_info, history, waits, mainVars,
                   last_headers, timeVars>>

\* a task queued for the released lock gets it and runs the checks
EnterGate(t) ==
    /\ pc[t] = "gate"
    /\ rate_limit_lock = 0
    /\ GateChecks(t, semaphore, BOOLEAN, BOOLEAN)
    /\ UNCHANGED <<config, otherVars, rate_limit_info, attempt, history, waits, mainVars,
                   last_headers, timeVars>>

\* a sleep of _wait_for_rate_limit ends: after the reset wait comes the
\* spacing check, after the spacing wait the lock is left and the request sent
GateWake(t) ==
    /\ pc[t] = "gate_sleep"
    /\ \E too_early \in BOOLEAN :
          Spacing(t, semaphore, sleeping[t] = "reset" /\ too_early)
    /\ UNCHANGED <<config, otherVars, rate_limit_info, attempt, history, waits, mainVars,
                   last_headers, timeVars>>

\* -------------------------------------------------- _request_with_retry
\* what the body of _request_with_retry raises: RateLimitError on a 429
\* (named "429" here), and the transport's own exceptions
RaisesInside(x) == x = "429" \/ x \in TransportErrors

\* tenacity around one finished attempt: "retry" (sleep, then call again),
\* "retry_error" (RetryError), or what the attempt itself returned or raised
Tenacity(x, attempt_number, limit) ==
    IF RaisesInside(x) /\ RetryIf(x)
    THEN IF StopAfterAttempt(attempt_number, limit)
         THEN IF Reraise THEN x ELSE "retry_error"
         ELSE "retry"
    ELSE x

\* "partial=success_response.partial" lost: never partial
PartialFlagDropped(x) == FALSE

\* "partial=success_response.partial": what the body of the 200 flagged
PartialFlag(x) == x = "200partial"

\* every error status raises
StatusExceptionAlways(x) ==
    CASE x = "401" -> "authentication_error"
      [] x = "402" -> "insufficient_credits"
      [] OTHER -> "api_error"

\* "if response.status_code == 401 ... elif ... == 402": the exception an
\* error status raises, "none" when it raises nothing
StatusException(x) ==
    CASE x = "401" -> "authentication_error"
      [] x = "402" -> "insufficient_credits"
      [] OTHER -> "none"

\* _make_request without its "except httpx.RequestError" clause
CaughtWithoutRequestError(x) == x \in {"retry_error", "timeout"}

\* the except clauses of _make_request: RetryError, httpx.TimeoutException,
\* httpx.RequestError
Caught(x) == x \in {"retry_error", "timeout", "request_error"}

\* a failure result built without its error
FailureResultNoError(txn, code, message) ==
    Result(txn, FALSE, FALSE, FALSE, "none", <<>>)

\* EnrichmentResult(input=transaction, success=False, error=...)
FailureResult(txn, code, message) ==
    Result(txn, FALSE, FALSE, FALSE, code, message)

\* the exceptions _request_with_retry can leave with
ExceptionName(x) ==
    CASE x = "429" -> "rate_limit_error"
      [] x = "retry_error" -> "retry_error"
      [] x = "timeout" -> "timeout_exception"
      [] x = "request_error" -> "request_error_exception"

\* the error of the result an except clause builds
ExceptMessage(x, retries) ==
    CASE x = "retry_error" ->
           <<"Failed after", retries, "attempts:", "Rate limit exceeded">>
      [] x = "timeout" -> <<"Request timed out">>
      [] x = "request_error" -> <<"str(e)">>

ExceptCode(x) == IF x = "retry_error" THEN "max_retries_exceeded" ELSE x

\* _make_request after _request_with_retry: the status branches and the
\* three except clauses; every exception without a clause propagates
MakeRequestOutcome(txn, x, retries) ==
    CASE x \in {"200", "200partial"} ->
           Result(txn, TRUE, PartialFlag(x), TRUE, "none", <<>>)
      [] x \in {"401", "402", "500"} ->
           IF StatusException(x) # "none"
           THEN Raised(StatusException(x))
           ELSE FailureResult(txn, "server_error", <<"error.message">>)
      [] OTHER ->
           IF Caught(x)
           THEN FailureResult(txn, ExceptCode(x), ExceptMessage(x, retries))
           ELSE Raised(ExceptionName(x))

\* _update_rate_limit_info run whatever the attempt ended with
HasResponseAlways(x) == TRUE

\* "response = await client.post(...)" returned a response: only then is
\* the next statement, _update_rate_limit_info, reached; a transport
\* exception leaves _request_with_retry before it
HasResponse(x) == x \in Statuses

\* _update_rate_limit_info:
\* self._rate_limit_info = RateLimitInfo.from_headers(dict(headers))
UpdatedInfo(info, headers) == Some(FromHeaders(DictOfHeaders(headers)))

\* the transport call of task t ends with a response (status, and headers
\* out of hs) or a transport error; _update_rate_limit_info runs on every
\* response, then tenacity and the rest of _make_request decide what the
\* task does
Receive(t, hs) ==
    /\ pc[t] = "inflight"
    /\ \E x \in Statuses \cup TransportErrors, h \in hs \cup {NoHeaders} :
          /\ x \in TransportErrors => h = NoHeaders
          /\ x \in Statuses => h \in hs
          /\ rate_limit_info' =
                IF HasResponse(x) THEN UpdatedInfo(rate_limit_info, h)
                ELSE rate_limit_info
          /\ last_headers' = IF x \in Statuses THEN Some(h) ELSE last_headers
          /\ history' = [history EXCEPT ![t] = Append(@, x)]
          /\ LET r == Tenacity(x, attempt[t], max_retries)
             IN  IF r = "retry"
                 THEN /\ waits' = [waits EXCEPT
                                     ![t] = Append(@, WaitExponential(attempt[t]))]
                      /\ pc' = [pc EXCEPT ![t] = "backoff"]
                      /\ UNCHANGED <<out, semaphore, doneq>>
                 ELSE /\ Finish(t, MakeRequestOutcome(transactions[t], r,
                                                      max_retries), semaphore)
                      /\ UNCHANGED waits
    /\ UNCHANGED <<config, otherVars, rate_limit_lock, sleeping, attempt, sent, gated,
                   mainVars>>

Respond(t) == Receive(t, Headers) /\ UNCHANGED timeVars

\* tenacity's backoff sleep ends: the next attempt calls
\* _request_with_retry again, which starts at the pacing gate
BackoffWake(t) ==
    /\ pc[t] = "backoff"
    /\ attempt' = [attempt EXCEPT ![t] = @ + 1]
    /\ RequestWithRetry(t, semaphore, BOOLEAN, BOOLEAN)
    /\ UNCHANGED <<config, otherVars, rate_limit_info, history, waits, mainVars,
                   last_headers, timeVars>>

\* the tasks inside "async with self._semaphore": queued for the gate, in
\* it, awaiting the response or the backoff
HoldsSlot(t) == pc[t] \in {"gate", "gate_sleep", "inflight", "backoff"}

\* enrich_batch raised and main ends with it: asyncio.run cancels the tasks
\* still alive. CancelledError leaves every "async with" on its way out:
\* a held lock and every held slot are released; a task that was still
\* waiting for a slot holds none.
CancelAll ==
    /\ main_pc = "raised"
    /\ \E t \in Tasks : pc[t] \notin {"done", "cancelled"}
    /\ pc' = [t \in Tasks |-> IF pc[t] = "done" THEN "done" ELSE "cancelled"]
    /\ semaphore' = semaphore + Cardinality({t \in Tasks : HoldsSlot(t)})
    /\ rate_limit_lock' = 0
    /\ sleeping' = [t \in Tasks |-> "none"]
    /\ UNCHANGED <<config, otherVars, rate_limit_info, attempt, history, sent,
                   gated, waits, out, doneq, mainVars, last_headers, timeVars>>

Next ==
    \/ MainChecks
    \/ Report
    \/ EnrichBatch
    \/ Collect
    \/ \E t \in Tasks : AcquireSlot(t)
    \/ \E t \in Tasks : EnterGate(t)
    \/ \E t \in Tasks : GateWake(t)
    \/ \E t \in Tasks : Respond(t)
    \/ \E t \in Tasks : BackoffWake(t)
    \/ CancelAll

Spec == Init /\ [][Next]_vars

\* the retry policy: one task, or two tasks side by side, and every retry
\* budget up to MaxRetriesLong
RetryBatchSizes == {1, 2}

InitRetry ==
    /\ InitWith(RetryBatchSizes, {2}, 1..MaxRetriesLong, {1}, {TRUE}, {TRUE})
    /\ DataIdle

SpecRetry == InitRetry /\ [][Next]_vars

\* the client under its scheduler: the event loop runs a callback that is
\* ready, every sleep ends and every transport call completes, so a step
\* that can be taken is not put off forever
LiveBatchSizes == {0, 1, 2}

LiveRetries == {1, 2, DefaultMaxRetries}

InitLive ==
    /\ InitWith(LiveBatchSizes, {1, 2}, LiveRetries, {1}, {TRUE}, {TRUE})
    /\ DataIdle

SpecLive == InitLive /\ [][Next]_vars /\ WF_vars(Next)

\* ------------------------------------------------------- the pacing gate
\* The same client with its clock: every comparison against time.time()
\* is computed, every asyncio.sleep lasts at least as long as asked, and
\* the server stamps its headers with the time of the response.

\* "wait_time = max(0, reset_ts - time.time())"
ResetWait ==
    IF rate_limit_info # None /\ GetResetTimestamp(rate_limit_info[1]) # None
    THEN Max2(0, GetResetTimestamp(rate_limit_info[1])[1] - now)
    ELSE 0

\* "if wait_time > 0"
BeforeReset == ResetWait > 0

\* "elapsed = time.time() - self._last_request_time"
Elapsed == now - last_request_time

\* "if elapsed < self.request_delay"
TooEarly == Elapsed < request_delay

\* the responses the client has received so far, that is the number of
\* times _update_rate_limit_info has set _last_request_time
Writes ==
    Cardinality({p \in UNION {{<<t, k>> : k \in DOMAIN history[t]} : t \in Tasks} :
                    history[p[1]][p[2]] \in Statuses})

\* (end - start) taken for milliseconds as it is
ProcessingTimeNotScaled(start, end) == end - start

\* "processing_time = (time.perf_counter() - start_time) * 1000"
ProcessingTime(start, end) == ((end - start) * 1000) \div TicksPerSecond

\* what a step of task t does to the clock's variables: the start of its
\* _make_request call ("start_time = time.perf_counter()"), the sleep it
\* starts ("asyncio.sleep(wait_time + 0.5)", "asyncio.sleep(request_delay
\* - elapsed)", tenacity's backoff in seconds), the request it sends,
\* "self._last_request_time = time.time()" of _update_rate_limit_info on
\* a response, and the processing_time_ms of the result it returns
Clock(t) ==
    /\ start_time' = IF pc[t] = "pending"
                     THEN [start_time EXCEPT ![t] = now]
                     ELSE start_time
    /\ processing_time_ms' =
          IF pc'[t] = "done" /\ out'[t].kind = "result"
          THEN [processing_time_ms EXCEPT
                   ![t] = Some(ProcessingTime(start_time'[t], now))]
          ELSE processing_time_ms
    /\ wake_at' = [wake_at EXCEPT ![t] =
                      IF pc'[t] = "gate_sleep"
                      THEN IF sleeping'[t] = "reset"
                           THEN now + ResetWait + ResetBuffer
                           ELSE now + (request_delay - Elapsed)
                      ELSE IF pc'[t] = "backoff"
                           THEN now + TicksPerSecond * waits'[t][Len(waits'[t])]
                           ELSE 0]
    /\ dispatched' =
          IF sent'[t] # sent[t]
          THEN Append(dispatched, [task |-> t, at |-> now, basis |-> Writes])
          ELSE dispatched
    /\ last_request_time' =
          IF Len(history'[t]) > Len(history[t])
             /\ HasResponse(history'[t][Len(history'[t])])
          THEN now
          ELSE last_request_time
    /\ UNCHANGED <<now, request_delay>>

PacedAcquireSlot(t) ==
    /\ pc[t] = "pending"
    /\ SemaphoreFree(semaphore)
    /\ attempt' = [attempt EXCEPT ![t] = 1]
    /\ RequestWithRetry(t, semaphore - 1, {BeforeReset}, {TooEarly})
    /\ UNCHANGED <<config, otherVars, rate_limit_info, history, waits, mainVars,
                   last_headers>>
    /\ Clock(t)

PacedEnterGate(t) ==
    /\ pc[t] = "gate"
    /\ rate_limit_lock = 0
    /\ GateChecks(t, semaphore, {BeforeReset}, {TooEarly})
    /\ UNCHANGED <<config, otherVars, rate_limit_info, attempt, history, waits, mainVars,
                   last_headers>>
    /\ Clock(t)

PacedGateWake(t) ==
    /\ pc[t] = "gate_sleep"
    /\ now >= wake_at[t]
    /\ Spacing(t, semaphore, sleeping[t] = "reset" /\ TooEarly)
    /\ UNCHANGED <<config, otherVars, rate_limit_info, attempt, history, waits, mainVars,
                   last_headers>>
    /\ Clock(t)

PacedRespond(t) == Receive(t, HeadersAt(now)) /\ Clock(t)

PacedBackoffWake(t) ==
    /\ pc[t] = "backoff"
    /\ now >= wake_at[t]
    /\ attempt' = [attempt EXCEPT ![t] = @ + 1]
    /\ RequestWithRetry(t, semaphore, {BeforeReset}, {TooEarly})
    /\ UNCHANGED <<config, otherVars, rate_limit_info, history, waits, mainVars,
                   last_headers>>
    /\ Clock(t)

\* time passes
Tick ==
    /\ now < StartTime + MaxTime
    /\ now' = now + 1
    /\ UNCHANGED <<config, otherVars, semaphore, rate_limit_lock, rate_limit_info, pc,
                   sleeping, attempt, history, sent, gated, waits, out, doneq,
                   mainVars, last_headers, request_delay, last_request_time,
                   wake_at, dispatched, start_time, processing_time_ms>>

NextPacing ==
    \/ MainChecks
    \/ Report
    \/ EnrichBatch
    \/ Collect
    \/ \E t \in Tasks : PacedAcquireSlot(t)
    \/ \E t \in Tasks : PacedEnterGate(t)
    \/ \E t \in Tasks : PacedGateWake(t)
    \/ \E t \in Tasks : PacedRespond(t)
    \/ \E t \in Tasks : PacedBackoffWake(t)
    \/ CancelAll
    \/ Tick

\* batches of one and two, one slot or two, a delay of one tick
PacedBatchSizes == {1, 2}

RequestDelays == {1}

InitPacing ==
    /\ InitWith(PacedBatchSizes, {1, 2}, {DefaultMaxRetries}, RequestDelays,
                {TRUE}, {TRUE})
    /\ DataIdle

SpecPacing == InitPacing /\ [][NextPacing]_vars

\* ------------------------------------------------- the category payload
\* A client that is never started, for the specifications of the helpers
ClientIdle == InitWith({0}, {1}, {DefaultMaxRetries}, {1}, {TRUE}, {TRUE})

CategoryNames == {"Groceries", "Coffee Shops", "Unknown"}

OptionalNames == {None} \cup {Some(x) : x \in CategoryNames}

OptionalMcc == {None, Some(5411)}

\* what the "primary" key of a payload can hold: a dict with or without a
\* name, or something that is no dict ("str")
PrimaryPayloads ==
    [kind : {"dict"}, name : OptionalNames, mcc : OptionalMcc]
        \cup {[kind |-> "str", name |-> None, mcc |-> None]}

\* TransactionData.category as parsed from JSON: nothing, a dict (every key
\* optional), or something that is no dict
CategoryPayloads ==
    [kind : {"dict"}, primary : {None} \cup {Some(q) : q \in PrimaryPayloads},
     name : OptionalNames, mcc : OptionalMcc]
        \cup {[kind |-> k, primary |-> None, name |-> None, mcc |-> None] :
                 k \in {"none", "str"}}

\* get_primary_category_name that knows the flat format only
GetPrimaryCategoryNameFlatOnly(c) ==
    IF c.kind = "dict" /\ c.name # None THEN c.name[1] ELSE "Unknown"

\* TransactionData.get_primary_category_name (category is typed Any, so
\* the payload is still the dict the JSON held)
GetPrimaryCategoryName(c) ==
    IF c.kind = "none" THEN "Unknown"
    ELSE IF c.kind = "dict"
         THEN IF c.primary # None /\ c.primary[1].kind = "dict"
              THEN IF c.primary[1].name # None
                   THEN c.primary[1].name[1] ELSE "Unknown"
              ELSE IF c.name # None THEN c.name[1] ELSE "Unknown"
         ELSE "Unknown"

CategoryName ==
    /\ category_name = None
    /\ category_name' = Some(GetPrimaryCategoryName(category))
    /\ UNCHANGED <<config, main_pc, runVars, clientVars, category, csv_header,
                   csv_rows, loaded, overlapVars,
                   headerVars>>

InitCategory ==
    /\ ClientIdle
    /\ OverlapIdle
    /\ HeadersIdle
    /\ category \in CategoryPayloads
    /\ category_name = None
    /\ csv_header = <<>>
    /\ csv_rows = <<>>
    /\ loaded = None

SpecCategory == InitCategory /\ [][CategoryName]_vars

\* ------------------------------------------------------ the CSV loader
MaxRows == 2

\* what csv.DictReader puts in a row for a column the line is too short for
\* (restval), and what stands for a column the header does not have
NoneCell == "<None>"

NoKey == "<no key>"

CsvHeaders ==
    {<<"country", "type", "title", "comment">>, <<"country", "type", "title">>,
     <<"country", "title">>, <<"country", "type">>}

\* the texts a cell of each column is drawn from
CellTexts(column) ==
    CASE column = "country" -> {"us", "USA"}
      [] column = "type" -> {"Income", "refund"}
      [] column = "title" -> {"STARBUCKS", " "}
      [] column = "comment" -> {"note"}

\* the lines of a file with this header: one cell per column, or fewer
CsvLines(header) ==
    LET texts == UNION {CellTexts(header[i]) : i \in 1..Len(header)}
    IN  UNION {{r \in [1..n -> texts] :
                  \A i \in 1..n : r[i] \in CellTexts(header[i])} :
                 n \in 1..Len(header)}

\* the files: a header and up to MaxRows lines
CsvFiles(header) ==
    UNION {[1..n -> CsvLines(header)] : n \in 0..MaxRows}

\* row[column] of the dict csv.DictReader makes of a line
Cell(header, line, column) ==
    IF \E i \in 1..Len(header) : header[i] = column
    THEN LET i == CHOOSE j \in 1..Len(header) : header[j] = column
         IN  IF i > Len(line) THEN NoneCell ELSE line[i]
    ELSE NoKey

\* str.strip, str.lower and str.upper on the texts of the cells
StrStrip(text) == IF text = " " THEN "" ELSE text

StrLower(text) == IF text = "Income" THEN "income" ELSE text

StrUpper(text) == IF text = "us" THEN "US" ELSE text

\* Field(min_length=1, max_length=256) and Field(pattern="^[A-Za-z]{2}$")
ValidTitle(title) == title # ""

ValidCountry(country) == country \in {"US", "us"}

\* row.get(column, default)
RowGet(header, line, column, default) ==
    IF Cell(header, line, column) = NoKey THEN default
    ELSE Cell(header, line, column)

\* the body of the loop of load_transactions_from_csv for one row: the
\* Transaction is appended, the row is skipped with a logged error, or an
\* exception that no except clause catches leaves the loop. None has no
\* strip: AttributeError is neither a KeyError nor a ValueError.
LoadRow(header, line) ==
    LET type == RowGet(header, line, "type", "expense")
        title == Cell(header, line, "title")
        country == Cell(header, line, "country")
        comment == RowGet(header, line, "comment", "")
    IN  IF type = NoneCell THEN [kind |-> "raise", error |-> "AttributeError"]
        ELSE IF title = NoKey THEN [kind |-> "skip", error |-> "KeyError"]
        ELSE IF title = NoneCell
             THEN [kind |-> "raise", error |-> "AttributeError"]
        ELSE IF country = NoKey THEN [kind |-> "skip", error |-> "KeyError"]
        ELSE IF country = NoneCell \/ comment = NoneCell
             THEN [kind |-> "raise", error |-> "AttributeError"]
        ELSE IF ~ValidTitle(StrStrip(title))
                  \/ ~ValidCountry(StrUpper(StrStrip(country)))
             THEN [kind |-> "skip", error |-> "ValidationError"]
        ELSE [kind |-> "append", error |-> ""]

\* the Transaction the loop builds of a row it appends; a type that is
\* neither expense nor income is replaced by expense, with a warning
TransactionOf(header, line) ==
    LET type == StrLower(StrStrip(RowGet(header, line, "type", "expense")))
        comment == StrStrip(RowGet(header, line, "comment", ""))
    IN  [title |-> StrStrip(Cell(header, line, "title")),
         country |-> StrUpper(StrStrip(Cell(header, line, "country"))),
         type |-> IF type \in {"expense", "income"} THEN type ELSE "expense",
         comment |-> IF comment = "" THEN None ELSE Some(comment)]

\* load_transactions_from_csv from row i on; kept lists the rows the
\* Transactions of the list came from
RECURSIVE LoadFrom(_, _, _, _, _)
LoadFrom(header, lines, i, loaded_list, kept) ==
    IF i > Len(lines)
    THEN [raised |-> None, transactions |-> loaded_list, kept |-> kept]
    ELSE LET row == LoadRow(header, lines[i])
         IN  IF row.kind = "raise"
             THEN [raised |-> Some(row.error), transactions |-> <<>>,
                   kept |-> <<>>]
             ELSE IF row.kind = "skip"
                  THEN LoadFrom(header, lines, i + 1, loaded_list, kept)
                  ELSE LoadFrom(header, lines, i + 1,
                                Append(loaded_list,
                                       TransactionOf(header, lines[i])),
                                Append(kept, i))

LoadTransactionsFromCsv ==
    /\ loaded = None
    /\ loaded' = Some(LoadFrom(csv_header, csv_rows, 1, <<>>, <<>>))
    /\ UNCHANGED <<config, main_pc, runVars, clientVars, category,
                   category_name, csv_header, csv_rows, overlapVars,
                   headerVars>>

InitLoader ==
    /\ ClientIdle
    /\ OverlapIdle
    /\ HeadersIdle
    /\ category = [kind |-> "none", primary |-> None, name |-> None,
                   mcc |-> None]
    /\ category_name = None
    /\ csv_header \in CsvHeaders
    /\ csv_rows \in CsvFiles(csv_header)
    /\ loaded = None

SpecLoader == InitLoader /\ [][LoadTransactionsFromCsv]_vars

\* ------------------------------------- enrich_batch calls that overlap
\* The calls of one client whose lifetimes overlap (asyncio tasks of one
\* event loop). Each task is followed from its slot to the end of its
\* request; the pacing gate and the retries are those of the main model.

\* enrich_batch(transactions) up to its first await, for n transactions:
\* self._semaphore is replaced by a new Semaphore on every call
CallEnrichBatch(b, n) ==
    /\ calls[b].pc = "idle"
    /\ IF n = 0
       THEN /\ calls' = [calls EXCEPT ![b] = [pc |-> "returned", size |-> 0]]
            /\ UNCHANGED <<semaphores, self_semaphore, call_tasks>>
       ELSE /\ semaphores' = Append(semaphores, NewSemaphore(max_concurrent))
            /\ self_semaphore' = Len(semaphores) + 1
            /\ calls' = [calls EXCEPT ![b] = [pc |-> "running", size |-> n]]
            /\ call_tasks' = [call_tasks EXCEPT ![b] =
                   [i \in 1..MaxN |-> IF i <= n
                                      THEN [pc |-> "pending", sem |-> 0]
                                      ELSE @[i]]]
    /\ UNCHANGED <<config, main_pc, runVars, clientVars, dataVars,
                   headerVars>>

\* "async with self._semaphore" of a task that starts to run: the attribute
\* is read now; the task takes a slot of that object or waits for one
ProcessOneStart(b, i) ==
    /\ call_tasks[b][i].pc = "pending"
    /\ IF SemaphoreFree(semaphores[self_semaphore])
       THEN /\ semaphores' = [semaphores EXCEPT ![self_semaphore] = @ - 1]
            /\ call_tasks' = [call_tasks EXCEPT ![b][i] =
                                 [pc |-> "slot", sem |-> self_semaphore]]
       ELSE /\ call_tasks' = [call_tasks EXCEPT ![b][i] =
                                 [pc |-> "waiting", sem |-> self_semaphore]]
            /\ UNCHANGED semaphores
    /\ UNCHANGED <<config, main_pc, runVars, clientVars, dataVars,
                   headerVars, self_semaphore, calls>>

\* a slot of the object the task waits on became free
ProcessOneAcquire(b, i) ==
    /\ call_tasks[b][i].pc = "waiting"
    /\ SemaphoreFree(semaphores[call_tasks[b][i].sem])
    /\ semaphores' = [semaphores EXCEPT ![call_tasks[b][i].sem] = @ - 1]
    /\ call_tasks' = [call_tasks EXCEPT ![b][i].pc = "slot"]
    /\ UNCHANGED <<config, main_pc, runVars, clientVars, dataVars,
                   headerVars, self_semaphore, calls>>

\* _make_request under the slot: the gate is passed and client.post issued
ProcessOnePost(b, i) ==
    /\ call_tasks[b][i].pc = "slot"
    /\ call_tasks' = [call_tasks EXCEPT ![b][i].pc = "inflight"]
    /\ UNCHANGED <<config, main_pc, runVars, clientVars, dataVars,
                   headerVars, semaphores,
                   self_semaphore, calls>>

\* the response arrives, _make_request returns and the slot is released
\* on the object it was taken from
ProcessOneFinish(b, i) ==
    /\ call_tasks[b][i].pc = "inflight"
    /\ semaphores' = [semaphores EXCEPT ![call_tasks[b][i].sem] = @ + 1]
    /\ call_tasks' = [call_tasks EXCEPT ![b][i].pc = "done"]
    /\ UNCHANGED <<config, main_pc, runVars, clientVars, dataVars,
                   headerVars, self_semaphore, calls>>

\* as_completed has yielded every task: the call returns its list
CallReturn(b) ==
    /\ calls[b].pc = "running"
    /\ \A i \in 1..calls[b].size : call_tasks[b][i].pc = "done"
    /\ calls' = [calls EXCEPT ![b].pc = "returned"]
    /\ UNCHANGED <<config, main_pc, runVars, clientVars, dataVars,
                   headerVars, semaphores,
                   self_semaphore, call_tasks>>

InitOverlap ==
    /\ InitWith({0}, 1..MaxConcurrent, {DefaultMaxRetries}, {1}, {TRUE},
                {TRUE})
    /\ DataIdle

NextOverlap ==
    \/ \E b \in CallIds, n \in 0..MaxN : CallEnrichBatch(b, n)
    \/ \E b \in CallIds, i \in 1..MaxN : ProcessOneStart(b, i)
    \/ \E b \in CallIds, i \in 1..MaxN : ProcessOneAcquire(b, i)
    \/ \E b \in CallIds, i \in 1..MaxN : ProcessOnePost(b, i)
    \/ \E b \in CallIds, i \in 1..MaxN : ProcessOneFinish(b, i)
    \/ \E b \in CallIds : CallReturn(b)

SpecOverlap == InitOverlap /\ [][NextOverlap]_vars

\* ------------------------------------------- RateLimitInfo.from_headers
\* from_headers on the dicts it can be given: the headers of a response
\* under the names the server sends, or under the lower-cased names of
\* dict(httpx.Headers), each header missing or holding one of the texts

\* the headers from_headers reads with _int
NumericKeys ==
    {"X-RateLimit-Limit", "X-RateLimit-Remaining",
     "X-RateLimit-Concurrency-Limit", "X-RateLimit-Concurrency-Remaining",
     "Retry-After"}

HeaderTexts == {"abc", "-1", "0", "5"}

\* int(text): the number, or None for the ValueError of a text that is
\* no number
ParseInt(text) ==
    CASE text = "5" -> Some(5)
      [] text = "0" -> Some(0)
      [] text = "-1" -> Some(0 - 1)
      [] OTHER -> None

\* the dict that holds the headers of texts (NoKey: not sent) under their
\* names, lower-cased or not
HeaderDict(texts, lowered) ==
    {<<IF lowered THEN Lower(k) ELSE k, Some(texts[k])>> :
        k \in {n \in NumericKeys : texts[n] # NoKey}}

HeaderDicts ==
    {HeaderDict(texts, lowered) :
        texts \in [NumericKeys -> HeaderTexts \cup {NoKey}],
        lowered \in BOOLEAN}

\* _int that lets zero through
IntFieldNonNegative(d, key) ==
    LET raw == DictGet(d, key)
        v == IF raw = None THEN Some(0) ELSE ParseInt(raw[1])
    IN  IF v = None THEN None ELSE IF v[1] >= 0 THEN v ELSE None

\* from_headers._int(key): "v = int(headers.get(key, 0)); return v if v >
\* 0 else None", and None on ValueError
IntField(d, key) ==
    LET raw == DictGet(d, key)
        v == IF raw = None THEN Some(0) ELSE ParseInt(raw[1])
    IN  IF v = None THEN None ELSE IF v[1] > 0 THEN v ELSE None

\* the numeric fields of RateLimitInfo.from_headers(d)
FromHeadersInts(d) ==
    [limit |-> IntField(d, "X-RateLimit-Limit"),
     remaining |-> IntField(d, "X-RateLimit-Remaining"),
     concurrency_limit |-> IntField(d, "X-RateLimit-Concurrency-Limit"),
     concurrency_remaining |->
         IntField(d, "X-RateLimit-Concurrency-Remaining"),
     retry_after_seconds |-> IntField(d, "Retry-After")]

ParseHeaders ==
    /\ parsed_info = None
    /\ parsed_info' = Some(FromHeadersInts(header_dict))
    /\ UNCHANGED <<config, main_pc, runVars, clientVars, dataVars,
                   overlapVars, header_dict>>

InitHeaders ==
    /\ ClientIdle
    /\ OverlapIdle
    /\ category = [kind |-> "none", primary |-> None, name |-> None,
                   mcc |-> None]
    /\ category_name = None
    /\ csv_header = <<>>
    /\ csv_rows = <<>>
    /\ loaded = None
    /\ header_dict \in HeaderDicts
    /\ parsed_info = None

SpecHeaders == InitHeaders /\ [][ParseHeaders]_vars

\* ------------------------------------------------------------ properties
Range(f) == {f[k] : k \in DOMAIN f}

InFlight == {t \in Tasks : pc[t] = "inflight"}

TerminalStatuses == {"401", "402"}

TerminalErrors == {"authentication_error", "insufficient_credits"}

\* some task of the batch has received a 401 or a 402
TerminalReceived == \E t \in Tasks : Range(history[t]) \cap TerminalStatuses # {}

\* C1: when enrich_batch returns, the list has one result per input
\* transaction and result[i].input is transactions[i], whatever the
\* completion order was.
OrderPreserved ==
    main_pc = "returned" =>
        /\ Len(returned) = N
        /\ \A i \in 1..N : returned[i].input = transactions[i]

\* a batch returned whose second transaction completed first
OrderPreservedWitness ==
    /\ main_pc = "returned"
    /\ N >= 2
    /\ results_dict[1][1] = 2

\* C2: the number of in-flight remote calls never exceeds max_concurrent.
InFlightBounded == Cardinality(InFlight) <= max_concurrent

\* the cap is reached while another task still waits for a slot
InFlightBoundedWitness ==
    /\ Cardinality(InFlight) = max_concurrent
    /\ \E t \in Tasks : pc[t] = "pending"

\* C3: if a task has received a 401 or 402 when the batch ends, the batch
\* ends by raising the Authentication / Insufficient-Credits error and
\* returns no list, and no result ever wraps a 401 or 402.
TerminalErrorSurfaced ==
    [][/\ (main_pc = "collecting" /\ main_pc' # "collecting" /\ TerminalReceived)
          => (main_pc' = "raised" /\ raised' \in TerminalErrors
              /\ returned' = <<>>)
       /\ \A t \in Tasks :
            out'[t].kind = "result"
                => Range(history'[t]) \cap TerminalStatuses = {}]_vars

\* C4: once a 401 has been received by any task, no task issues a further
\* remote call.
NoDispatchAfter401 ==
    [][(\E t \in Tasks : "401" \in Range(history[t])) => sent' = sent]_vars

\* C5: a batch in which no item receives a 401 or 402 does not raise: every
\* other failure is a per-item Failure result and the full list is returned.
OnlyTerminalAborts ==
    [][(main_pc = "collecting" /\ main_pc' = "raised") => TerminalReceived]_vars

\* C6: a task whose every allowed attempt was answered with 429 yields a
\* Failure result with code max_retries_exceeded whose message embeds the
\* rate-limit error's message.
ExhaustedIsMaxRetriesExceeded ==
    \A t \in Tasks :
        (pc[t] = "done" /\ Len(history[t]) = max_retries
         /\ Range(history[t]) = {"429"})
        => /\ out[t].kind = "result"
           /\ ~out[t].success
           /\ out[t].error = "max_retries_exceeded"
           /\ "Rate limit exceeded" \in Range(out[t].message)

\* C7: a task makes at most max_retries transport calls, and every call but
\* the first follows an attempt that was answered with 429.
AttemptsBounded ==
    \A t \in Tasks :
        /\ sent[t] <= max_retries
        /\ Len(history[t]) >= sent[t] - 1
        /\ \A k \in 1..(sent[t] - 1) : history[t][k] = "429"

\* a task used its whole budget of at least two attempts
AttemptsBoundedWitness ==
    \E t \in Tasks : max_retries >= 2 /\ sent[t] = max_retries /\ pc[t] = "done"

\* C8: the waits between the attempts of a task answered with 429 are
\* non-decreasing and each lies within [2, 60].
BackoffWaitsBounded ==
    \A t \in Tasks :
        \A k \in 1..Len(waits[t]) :
            /\ waits[t][k] >= BackoffMin
            /\ waits[t][k] <= BackoffMax
            /\ k > 1 => waits[t][k - 1] <= waits[t][k]

\* a task waited at the floor first and at the ceiling later
BackoffWaitsBoundedWitness ==
    \E t \in Tasks :
        /\ Len(waits[t]) >= 7
        /\ waits[t][1] = BackoffMin
        /\ waits[t][3] > waits[t][2]
        /\ waits[t][7] = BackoffMax

\* C9: a first attempt that ends in a failure other than 429 ends the
\* task at once: one transport call, and the outcome of that failure.
FirstFailureStatuses == {"401", "402", "500", "timeout", "request_error"}

FirstFailureNotRetried ==
    \A t \in Tasks :
        (Len(history[t]) >= 1 /\ history[t][1] \in FirstFailureStatuses)
        => /\ sent[t] = 1
           /\ pc[t] = "done"
           /\ history[t] = <<history[t][1]>>
           /\ out[t].kind # "none"

\* a first attempt timed out although retries were allowed
FirstFailureNotRetriedWitness ==
    \E t \in Tasks :
        max_retries >= 2 /\ history[t] = <<"timeout">> /\ pc[t] = "done"

\* C10: enrich_batch on an empty list returns an empty list at once: no
\* semaphore, no client, no task, no progress callback.
EmptyBatchNoDispatch ==
    (N = 0 /\ main_pc \notin {"main", "halted", "start"})
    => /\ main_pc = "returned"
       /\ returned = <<>>
       /\ semaphore = -1
       /\ client = "none"
       /\ progress = <<>>
       /\ completed = 0

\* the empty batch has returned
EmptyBatchNoDispatchWitness == N = 0 /\ main_pc = "returned"

\* ---------------------------------------------------------------------
\* C11: the progress callback is invoked once for every result collected,
\* with (completed, total): total is the length of the input every time,
\* and completed never decreases from one invocation to the next,
\* whatever order the tasks complete in.
ProgressReported ==
    /\ Len(progress) = Len(results_dict)
    /\ \A k \in DOMAIN progress :
          /\ progress[k][2] = N
          /\ k > 1 => progress[k - 1][1] <= progress[k][1]

\* two results collected, the second transaction's first
ProgressReportedWitness ==
    /\ Len(progress) = 2
    /\ results_dict[1][1] = 2
    /\ progress[1][1] < progress[2][1]

\* the response received last advertised an exhausted bucket together
\* with its reset time
ExhaustedAdvertised ==
    /\ last_headers # None
    /\ last_headers[1].remaining = Some(0)
    /\ last_headers[1].reset # None

\* in this step task t runs the checks of _wait_for_rate_limit
Consults(t) ==
    \/ pc[t] \in {"pending", "backoff"} /\ pc'[t] \notin {pc[t], "gate"}
    \/ pc[t] = "gate" /\ pc'[t] # "gate"

\* C12: whenever the response received last advertised remaining = 0 and a
\* reset time, a caller that consults the gate is suspended, and sends
\* nothing, until max(0, reset - now) plus the buffer has passed.
ResetWaitHonoured ==
    [][\A t \in Tasks :
          (ExhaustedAdvertised /\ Consults(t)) =>
              /\ pc'[t] = "gate_sleep"
              /\ sleeping'[t] = "reset"
              /\ wake_at'[t] >= now + ResetBuffer
                      + Max2(0, last_headers[1].reset[1].iso - now)]_vars

\* C13: of any two requests the client sends one after the other, the
\* later is sent at least request_delay after the earlier, whichever tasks
\* send them.
DispatchesSpaced ==
    \A k \in DOMAIN dispatched :
        k > 1 => dispatched[k].at - dispatched[k - 1].at >= request_delay

\* C14: the gate is one serialized section: at most one caller at a time
\* is between reading the last request time and letting itself through,
\* and no two requests were let through on the same value of it.
GateSerialized ==
    /\ Cardinality({t \in Tasks : pc[t] = "gate_sleep"}) <= 1
    /\ \A t \in Tasks : pc[t] = "gate_sleep" => rate_limit_lock = t
    /\ \A j, k \in DOMAIN dispatched :
          j # k => dispatched[j].basis # dispatched[k].basis

\* C15: the last request time changes only in a step that sends a
\* request; waiting in the gate and every other step leave it unchanged.
LastRequestTimeFrame ==
    [][last_request_time' # last_request_time => sent' # sent]_vars

\* the last status or transport error task t received
Last(h) == h[Len(h)]

Finished(t, x) ==
    pc[t] = "done" /\ history[t] # <<>> /\ Last(history[t]) = x

\* C16: after every response, whatever its status, the stored rate-limit
\* state holds the values that response's headers advertised, and nothing
\* of an earlier response; before the first response nothing is stored.
TrackerHoldsAdvertised ==
    rate_limit_info =
        IF last_headers = None THEN None
        ELSE Some([remaining |-> last_headers[1].remaining,
                   reset |-> last_headers[1].reset])

\* C17: a 200 gives a result with the parsed payload: success and partial
\* when the server flagged partiality, success and not partial otherwise.
OkGivesSuccessOrPartial ==
    \A t \in Tasks :
        /\ Finished(t, "200") =>
              out[t] = Result(transactions[t], TRUE, FALSE, TRUE, "none", <<>>)
        /\ Finished(t, "200partial") =>
              out[t] = Result(transactions[t], TRUE, TRUE, TRUE, "none", <<>>)

OkGivesSuccessOrPartialWitness ==
    \E t, u \in Tasks : Finished(t, "200") /\ Finished(u, "200partial")

\* C18: an error status other than 429, 401 and 402 gives a failure result
\* for that one item, carrying the parsed error; nothing is raised, so the
\* batch is not aborted by it.
OtherStatusGivesFailure ==
    \A t \in Tasks :
        Finished(t, "500") =>
            /\ out[t] = Result(transactions[t], FALSE, FALSE, FALSE,
                               "server_error", <<"error.message">>)
            /\ \A k \in DOMAIN results_dict :
                  results_dict[k][1] = t => results_dict[k][2] = out[t]

\* a batch that returned with the failure of a 500 at its index
OtherStatusGivesFailureWitness ==
    /\ main_pc = "returned"
    /\ \E t \in Tasks :
          /\ Finished(t, "500")
          /\ returned[t].error = "server_error"
          /\ \E u \in Tasks : returned[u].success

\* C19: a transport failure never leaves the executor as an exception: a
\* timeout gives a failure with code timeout, every other transport error
\* a failure with code request_error.
TransportFailureGivesFailure ==
    \A t \in Tasks :
        \A x \in TransportErrors :
            Finished(t, x) =>
                /\ out[t].kind = "result"
                /\ ~out[t].success
                /\ out[t].error = x

TransportFailureGivesFailureWitness ==
    \E t, u \in Tasks :
        Finished(t, "timeout") /\ Finished(u, "request_error")

\* C20: every result the executor produces has its payload exactly when it
\* is a success or a partial success, and its error exactly when it is a
\* failure.
ResultWellFormed ==
    \A t \in Tasks :
        out[t].kind = "result" =>
            /\ out[t].data <=> out[t].success
            /\ (out[t].error # "none") <=> ~out[t].success
            /\ out[t].partial => out[t].success

\* a success and a failure side by side
ResultWellFormedWitness ==
    \E t, u \in Tasks :
        /\ out[t].kind = "result" /\ out[t].success /\ out[t].data
        /\ out[u].kind = "result" /\ ~out[u].success
        /\ out[u].error = "timeout"

\* the sum of a sequence of numbers
RECURSIVE Sum(_)
Sum(q) == IF q = <<>> THEN 0 ELSE q[1] + Sum(Tail(q))

\* task t was answered with one or more 429s, fewer than the attempt
\* limit, and then with a 200
RetriedThenOk(t) ==
    /\ pc[t] = "done"
    /\ Len(history[t]) >= 2
    /\ Len(history[t]) <= max_retries
    /\ Last(history[t]) = "200"
    /\ \A k \in 1..(Len(history[t]) - 1) : history[t][k] = "429"

\* C21: a transaction answered with one or more 429s, fewer than the
\* attempt limit, and then a 200 gets exactly one result, a success, and
\* its processing_time_ms is at least the backoff waits, in milliseconds,
\* that tenacity put between the attempts.
RetriedSuccessCoversDelay ==
    \A t \in Tasks :
        RetriedThenOk(t) =>
            /\ out[t] = Result(transactions[t], TRUE, FALSE, TRUE, "none", <<>>)
            /\ Cardinality({k \in DOMAIN doneq : doneq[k] = t})
                 + Cardinality({k \in DOMAIN results_dict :
                                   results_dict[k][1] = t}) = 1
            /\ processing_time_ms[t] # None
            /\ processing_time_ms[t][1] >= 1000 * Sum(waits[t])

\* a 429, the backoff of two seconds, then a 200
RetriedSuccessCoversDelayWitness ==
    \E t \in Tasks :
        /\ RetriedThenOk(t)
        /\ waits[t] = <<2>>
        /\ processing_time_ms[t] # None

MissingConfigHalts ==
    (~api_key \/ ~input_exists) =>
        /\ main_pc \in {"main", "halted"}
        /\ main_pc = "halted" => exit_code = Some(1)
        /\ semaphore = -1
        /\ client = "none"
        /\ \A t \in Tasks : pc[t] = "new" /\ sent[t] = 0

\* the key is there, the input file is not, the list would not be empty
MissingConfigHaltsWitness ==
    /\ main_pc = "halted"
    /\ api_key
    /\ ~input_exists
    /\ N > 0

\* C24: get_primary_category_name returns X for the flat payload
\* {name: X, mcc: ...} and for the nested payload {primary: {name: X, ...}},
\* for every name X.
CategoryNameBothFormats ==
    category_name # None =>
        /\ (category.kind = "dict" /\ category.primary = None
               /\ category.name # None)
              => category_name = category.name
        /\ (category.kind = "dict" /\ category.primary # None
               /\ category.primary[1].kind = "dict"
               /\ category.primary[1].name # None)
              => category_name = category.primary[1].name

\* the same name read from a nested payload that has no name of its own
CategoryNameBothFormatsWitness ==
    /\ category.kind = "dict"
    /\ category.name = None
    /\ category.primary # None
    /\ category.primary[1].name = Some("Coffee Shops")
    /\ category_name = Some("Coffee Shops")

\* a row the loader has to skip: a required field is missing, or the
\* title, the country or the type is not a valid one
InvalidRow(header, line) ==
    \/ \E column \in {"country", "type", "title"} :
          Cell(header, line, column) \in {NoKey, NoneCell}
    \/ ~ValidTitle(StrStrip(Cell(header, line, "title")))
    \/ ~ValidCountry(StrUpper(StrStrip(Cell(header, line, "country"))))
    \/ StrLower(StrStrip(Cell(header, line, "type"))) \notin {"expense", "income"}

\* C25: the loader skips every invalid row (a required field missing, an
\* invalid title, country or type) and keeps loading: the load does not fail
\* and no invalid row contributes a Transaction to the returned list.
InvalidRowsSkipped ==
    loaded # None =>
        /\ loaded[1].raised = None
        /\ \A k \in 1..Len(loaded[1].kept) :
              ~InvalidRow(csv_header, csv_rows[loaded[1].kept[k]])

\* C26: every transport call, the re-attempts after a 429 included, is
\* preceded by its own pass through the pacing gate: a task has never sent
\* more requests than it has passed the gate, and a request goes out only
\* in a step in which the task leaves the gate.
EverySendGated ==
    /\ \A t \in Tasks : sent[t] <= gated[t] /\ gated[t] <= attempt[t]
    /\ \A t \in Tasks : pc[t] = "inflight" => sent[t] = gated[t]

\* a re-attempt after a 429 is in flight, after a second pass of the gate
EverySendGatedWitness ==
    \E t \in Tasks :
        /\ pc[t] = "inflight"
        /\ history[t] = <<"429">>
        /\ sent[t] = 2
        /\ gated[t] = 2

\* C27: in a batch that returns, exactly one task was launched per input
\* transaction, the executor was invoked exactly once per index (a task that
\* has started never starts again, and all have finished), and exactly one
\* result is stored per index: none is dropped, stored twice or overwritten.
OneTaskOneResultPerIndex ==
    /\ [](main_pc = "collecting" => \A t \in Tasks : pc[t] # "new")
    /\ []((main_pc = "returned" /\ N > 0) =>
            /\ \A t \in Tasks : pc[t] = "done" /\ out[t].kind = "result"
            /\ completed = N
            /\ Len(results_dict) = N
            /\ Len(returned) = N
            /\ \A i \in 1..N :
                  Cardinality({k \in 1..Len(results_dict) :
                                 results_dict[k][1] = i}) = 1
            /\ \A k \in 1..Len(results_dict) :
                  results_dict[k][2] = out[results_dict[k][1]])
    /\ [][\A t \in Tasks : pc[t] \notin {"new", "pending"}
                              => pc'[t] \notin {"new", "pending"}]_vars
    /\ [][\A k \in 1..Len(results_dict) : results_dict'[k] = results_dict[k]]_vars

\* a batch of two returned, the second transaction having finished first
OneTaskOneResultPerIndexWitness ==
    /\ main_pc = "returned"
    /\ N = 2
    /\ Len(results_dict) = 2
    /\ results_dict[1][1] = 2
    /\ results_dict[2][1] = 1
    /\ \A t \in Tasks : sent[t] >= 1

\* the remote calls of the client that are in flight, whichever call of
\* enrich_batch they belong to
InFlightCalls ==
    {p \in CallIds \X (1..MaxN) : call_tasks[p[1]][p[2]].pc = "inflight"}

\* C28: the concurrency cap is global to the client: when two enrich_batch
\* calls on the same client overlap, the number of in-flight remote calls of
\* the client still never exceeds max_concurrent.
CapIsGlobal == Cardinality(InFlightCalls) <= max_concurrent

\* C30: every task that acquired a concurrency slot releases it on every
\* exit path (result, fatal error, cancellation): once the semaphore exists,
\* the slots taken from it are exactly those of the tasks inside the
\* semaphore block, their number is between 0 and max_concurrent, and when
\* enrich_batch returns normally all slots are free.
SlotsAlwaysReleased ==
    (N > 0 /\ main_pc \in {"collecting", "returned", "raised"}) =>
        LET held == max_concurrent - semaphore
        IN  /\ held = Cardinality({t \in Tasks : HoldsSlot(t)})
            /\ 0 <= held /\ held <= max_concurrent
            /\ main_pc = "returned" => held = 0
            /\ (\A t \in Tasks : pc[t] \in {"done", "cancelled"}) => held = 0

\* a fatal error aborted the batch and a request that was in flight was
\* cancelled: every slot is free again
SlotsAlwaysReleasedWitness ==
    /\ main_pc = "raised"
    /\ raised \in TerminalErrors
    /\ \E t \in Tasks : pc[t] = "cancelled" /\ sent[t] = 1 /\ history[t] = <<>>
    /\ semaphore = max_concurrent

\* task t exists and waits for a slot, for the gate's lock or in the gate
WaitsForSlotOrGate(t) ==
    t \in Tasks /\ pc[t] \in {"pending", "gate", "gate_sleep"}

\* C29: every enrich_batch call on a finite input eventually returns a
\* result list or raises, given that every transport call completes and
\* every wait ends: semaphore and gate lock never deadlock, and no task
\* waits forever for a slot or for the gate.
BatchTerminates ==
    /\ (main_pc = "start") ~> (main_pc \in {"returned", "raised"})
    /\ \A t \in 1..2 : WaitsForSlotOrGate(t) ~> ~WaitsForSlotOrGate(t)

\* a batch of two on one slot returned after the first task was retried:
\* the second waited for the slot and for the gate's turn
BatchTerminatesWitness ==
    /\ main_pc = "returned"
    /\ N = 2
    /\ max_concurrent = 1
    /\ history[1] = <<"429", "200">>
    /\ sent[2] = 1

\* C31: an attempt that ends in a transport failure (timeout or network
\* error, no response) leaves the shared state unchanged: the step in which
\* the failure reaches the task, like every step of the attempt before it
\* (the gate, the send), changes neither the stored rate-limit state nor
\* the last request time; they change only when a response is recorded.
TransportFailureFrame ==
    [][(\A t \in Tasks :
           history'[t] # history[t] => Last(history'[t]) \in TransportErrors
        ) => (rate_limit_info' = rate_limit_info
                /\ last_request_time' = last_request_time)]_vars

\* a request timed out after an earlier response had set both the
\* rate-limit state and the last request time, which are still there
TransportFailureFrameWitness ==
    \E t, u \in Tasks :
        /\ t # u
        /\ Finished(t, "timeout")
        /\ history[u] = <<"200">>
        /\ rate_limit_info # None
        /\ last_request_time > 0
        /\ Writes = 1

\* the numeric fields of a stored rate-limit state
NumericFields ==
    {"limit", "remaining", "concurrency_limit", "concurrency_remaining",
     "retry_after_seconds"}

\* the header a numeric field is read from
HeaderOf(field) ==
    CASE field = "limit" -> "X-RateLimit-Limit"
      [] field = "remaining" -> "X-RateLimit-Remaining"
      [] field = "concurrency_limit" -> "X-RateLimit-Concurrency-Limit"
      [] field = "concurrency_remaining" -> "X-RateLimit-Concurrency-Remaining"
      [] field = "retry_after_seconds" -> "Retry-After"

\* C32: each numeric field of the rate-limit state (limit, remaining,
\* concurrency limit, concurrency remaining, retry-after seconds) is either
\* absent or a strictly positive integer: a header that is missing,
\* non-numeric, zero or negative is stored as absent.
NumericFieldsAbsentOrPositive ==
    parsed_info # None =>
        \A field \in NumericFields :
            LET stored == parsed_info[1][field]
                raw == DictGet(header_dict, HeaderOf(field))
            IN  /\ stored = None \/ stored[1] > 0
                /\ (raw = None \/ raw[1] \in {"abc", "0", "-1"})
                      => stored = None

\* a limit of 5 is stored while the zero of the remaining quota, the
\* negative concurrency limit and the non-numeric retry-after are absent
NumericFieldsAbsentOrPositiveWitness ==
    /\ parsed_info # None
    /\ DictGet(header_dict, "X-RateLimit-Limit") = Some("5")
    /\ DictGet(header_dict, "X-RateLimit-Remaining") = Some("0")
    /\ DictGet(header_dict, "X-RateLimit-Concurrency-Limit") = Some("-1")
    /\ DictGet(header_dict, "Retry-After") = Some("abc")
    /\ parsed_info[1].limit = Some(5)
    /\ parsed_info[1].remaining = None
    /\ parsed_info[1].concurrency_limit = None
    /\ parsed_info[1].retry_after_seconds = None

\* C33: at every invocation of the progress callback the completed count
\* equals the number of results stored so far and is one more than at the
\* invocation before; a batch of N transactions that returns normally has
\* invoked the callback exactly N times, the last time with (N, N).
ProgressCountExact ==
    /\ Len(progress) = Len(results_dict)
    /\ \A k \in DOMAIN progress :
          /\ progress[k][1] = k
          /\ k > 1 => progress[k][1] = progress[k - 1][1] + 1
    /\ main_pc = "returned" =>
          /\ Len(progress) = N
          /\ N > 0 => progress[N] = <<N, N>>

\* a batch of two has returned after the callback was given (1, 2), then
\* (2, 2)
ProgressCountExactWitness ==
    /\ main_pc = "returned"
    /\ N = 2
    /\ progress = <<(<<1, 2>>), (<<2, 2>>)>>

====
